---- MODULE Spec2Model ----
(***************************************************************************)
(* Verification model of remote-job-manager: grid expansion, command       *)
(* building, template rendering and job-script writing.                    *)
(*                                                                         *)
(* Python values are records [isbool, text]: text is str(value), isbool    *)
(* tells a bool from every other type.  Ordered dicts are sequences of     *)
(* [key, val] records with pairwise distinct keys.  Text is TLA+ strings,  *)
(* taken apart with Len, SubSeq and \o.                                    *)
(***************************************************************************)
EXTENDS Integers, Sequences, FiniteSets, TLC

VARIABLES
    op,                 \* the operation of this invocation
    grid_config,        \* grid.yaml: ordered mapping key -> list of values
    experiment_config,  \* experiment yaml: ordered mapping key -> value
    pc,                 \* position of the invocation
    combinations,       \* the expanded grid
    job_idx,            \* loop index of the generation loop
    runs_dir,           \* output directory: file name -> file text
    jobs,               \* per written script: index, combination, the base and
                        \* params given to build_command, command, file name
    launcher_failed,    \* job indices whose job_launcher process failed
    round,              \* how many times the command ran into this directory
    alone_dir,          \* what this invocation alone wrote: file name -> text
    sweep_op,           \* long sweep: which writer names the files
    sweep_i,            \* long sweep: number of files written so far
    sweep_prev,         \* long sweep: name written before the last one
    sweep_last,         \* long sweep: name written last
    tpl,                \* rendering: template text
    slurm_params,       \* rendering: the complete variable mapping
    missing,            \* rendering: key left out of the call, or NoKey
    r_pc,               \* rendering: position
    rendered,           \* rendering: text returned
    command,            \* remote: the CLI operation invoked
    remote,             \* remote: value of the --remote option, or NoRemote
    project_config,     \* remote: config.yaml of the project, or None
    has_project_dir,    \* remote: output/<project> is a local directory
    has_sif,            \* remote: output/<project>/<project>.sif exists
    slurm_runs,         \* remote: the slurm run directory and its *.slurm files
    rpc,                \* remote: position of the invocation
    after_sync,         \* remote: where sync_project_to_remote returns to
    todo,               \* remote: scripts the submit loop has not reached yet
    events,             \* remote: every external process started, in order
    local_ran,          \* remote: the operation's local body has run
    exit_code,          \* remote: exit code of the invocation once rpc = "exited"
    c_out,              \* test: lines the container has still to write
    pipe,               \* test: lines written and not yet read
    c_state,            \* test: the container process
    c_rc,               \* test: exit code the container ends with
    t_pc,               \* test: position of run_test_in_container
    printed,            \* test: lines passed through to the user
    detected,           \* test: wandb_error_detected
    t_exit,             \* test: exit code once t_pc = "exited"
    dataset_command,    \* dataset: the configured download command
    marker,             \* dataset: .dataset_downloaded exists
    d_pc,               \* dataset: position of download_dataset
    d_log,              \* dataset: per finished call, whether the command ran and its code
    cfg_remotes,        \* configure: config["remotes"], name -> entry
    cfg_pc,             \* configure: position in the remotes menu
    cfg_n,              \* configure: menu actions taken so far
    cfg_last            \* configure: the last menu action and the mapping before it

vars == <<op, grid_config, experiment_config, pc, combinations, job_idx,
          runs_dir, jobs, launcher_failed, round, alone_dir, sweep_op, sweep_i, sweep_prev,
          sweep_last, tpl, slurm_params, missing, r_pc, rendered, command,
          remote, project_config, has_project_dir, has_sif, slurm_runs, rpc,
          after_sync, todo, events, local_ran, exit_code, c_out, pipe,
          c_state, c_rc, t_pc, printed, detected, t_exit, dataset_command,
          marker, d_pc, d_log, cfg_remotes, cfg_pc, cfg_n, cfg_last>>

genVars    == <<op, grid_config, experiment_config, pc, combinations,
                job_idx, runs_dir, jobs, launcher_failed, round, alone_dir>>
sweepVars  == <<sweep_op, sweep_i, sweep_prev, sweep_last>>
renderVars == <<tpl, slurm_params, missing, r_pc, rendered>>
testVars      == <<c_out, pipe, c_state, c_rc, t_pc, printed, detected, t_exit>>
datasetVars   == <<dataset_command, marker, d_pc, d_log>>
configureVars == <<cfg_remotes, cfg_pc, cfg_n, cfg_last>>
auxVars       == <<testVars, datasetVars, configureVars>>
remoteVars == <<command, remote, project_config, has_project_dir, has_sif,
                slurm_runs, rpc, after_sync, todo, events, local_ran,
                exit_code>>

(***************************************************************************)
(* Bounds of the model.                                                    *)
(***************************************************************************)
MaxGridKeys == 2
MaxGridVals == 2
MaxExpKeys  == 2
MaxSweep    == 10001
MaxSegs     == 4

(***************************************************************************)
(* Values and ordered mappings.                                            *)
(***************************************************************************)
Bool(b) == [isbool |-> TRUE, text |-> IF b THEN "True" ELSE "False"]
Str(s)  == [isbool |-> FALSE, text |-> s]
Truthy(v) == v.text = "True"

Keys(m) == [i \in 1..Len(m) |-> m[i].key]
KeySet(m) == {m[i].key : i \in 1..Len(m)}
HasKey(m, k) == k \in KeySet(m)
Lookup(m, k) == m[CHOOSE i \in 1..Len(m) : m[i].key = k].val
DistinctKeys(m) == \A i, j \in 1..Len(m) : m[i].key = m[j].key => i = j

RECURSIVE Join(_, _)
Join(parts, sep) ==
    IF parts = <<>> THEN ""
    ELSE IF Len(parts) = 1 THEN parts[1]
    ELSE parts[1] \o sep \o Join(Tail(parts), sep)

(***************************************************************************)
(* itertools.product: result = [[]]; for each pool, result =               *)
(* [x + [y] for x in result for y in pool].                                *)
(***************************************************************************)
Extend(result, pool) ==
    [k \in 1..(Len(result) * Len(pool)) |->
        Append(result[((k - 1) \div Len(pool)) + 1],
               pool[((k - 1) % Len(pool)) + 1])]

RECURSIVE ProductFrom(_, _)
ProductFrom(result, pools) ==
    IF pools = <<>> THEN result
    ELSE ProductFrom(Extend(result, Head(pools)), Tail(pools))

\* mutant of product: the nested loops swapped, the last pool slowest
ExtendSwapped(result, pool) ==
    [k \in 1..(Len(result) * Len(pool)) |->
        Append(result[((k - 1) % Len(result)) + 1],
               pool[((k - 1) \div Len(result)) + 1])]

RECURSIVE ProductFromSwapped(_, _)
ProductFromSwapped(result, pools) ==
    IF pools = <<>> THEN result
    ELSE ProductFromSwapped(ExtendSwapped(result, Head(pools)), Tail(pools))

product_last_slowest(pools) == ProductFromSwapped(<< <<>> >>, pools)

\* mutant of product: the accumulator starts empty instead of [[]]
product_empty_seed(pools) == ProductFrom(<<>>, pools)

product(pools) == ProductFrom(<< <<>> >>, pools)

\* dict(zip(keys, combo)): pairs up to the shorter of the two
Min(a, b) == IF a < b THEN a ELSE b
DictZip(keys, combo) ==
    [i \in 1..Min(Len(keys), Len(combo)) |-> [key |-> keys[i], val |-> combo[i]]]

\* mutant of generate_grid_combinations: zip(*values) for product(*values)
RECURSIVE MinLen(_)
MinLen(lists) ==
    IF Len(lists) = 1 THEN Len(lists[1])
    ELSE Min(Len(Head(lists)), MinLen(Tail(lists)))

generate_grid_combinations_zip(grid) ==
    LET keys   == Keys(grid)
        values == [i \in 1..Len(grid) |-> grid[i].vals]
        n      == IF values = <<>> THEN 0 ELSE MinLen(values)
    IN  [c \in 1..n |-> DictZip(keys, [i \in 1..Len(values) |-> values[i][c]])]

generate_grid_combinations(grid) ==
    LET keys   == Keys(grid)
        values == [i \in 1..Len(grid) |-> grid[i].vals]
        combos == product(values)
    IN  [c \in 1..Len(combos) |-> DictZip(keys, combos[c])]

(***************************************************************************)
(* experiment_generator.build_command                                      *)
(***************************************************************************)
RECURSIVE FlagParts(_)
FlagParts(params) ==
    IF params = <<>> THEN <<>>
    ELSE LET key   == Head(params).key
             value == Head(params).val
         IN  (IF value.isbool
                 THEN (IF Truthy(value) THEN <<"--" \o key>> ELSE <<>>)
                 ELSE <<"--" \o key \o " " \o value.text>>)
             \o FlagParts(Tail(params))

build_command(base_command, params) ==
    Join(<<base_command>> \o FlagParts(params), " ")

(***************************************************************************)
(* job_launcher: extract_params and build_command                          *)
(***************************************************************************)
HYDRA_INTERNAL_KEYS ==
    {"hydra", "_hydra_enable_legacy_struct_", "no_submit", "slurm_output_dir",
     "project", "cluster", "experiment", "job_index", "grid"}

\* params[key] = value on an ordered dict: in place when the key is there
DictSet(m, k, v) ==
    IF HasKey(m, k)
        THEN [i \in 1..Len(m) |-> IF m[i].key = k THEN [key |-> k, val |-> v] ELSE m[i]]
        ELSE Append(m, [key |-> k, val |-> v])

\* params.pop(key, None)
DictPop(m, k) == SelectSeq(m, LAMBDA e : e.key # k)

RECURSIVE UpdateFromCfg(_, _)
UpdateFromCfg(params, items) ==
    IF items = <<>> THEN params
    ELSE UpdateFromCfg(
            IF Head(items).key \notin HYDRA_INTERNAL_KEYS
                THEN DictSet(params, Head(items).key, Head(items).val)
                ELSE params,
            Tail(items))

\* cfg is [experiment |-> mapping, items |-> top-level items in order]
extract_params(cfg) ==
    DictPop(UpdateFromCfg(cfg.experiment, cfg.items), "script")

launcher_build_command(base_cmd, params) ==
    LET flags == [i \in 1..Len(params) |->
                    "--" \o params[i].key \o "=" \o params[i].val.text]
    IN  base_cmd \o " " \o Join(flags, " ")

(***************************************************************************)
(* Decimal formatting and file names                                       *)
(***************************************************************************)
Digit(d) == SubSeq("0123456789", d + 1, d + 1)

RECURSIVE ToStr(_)
ToStr(n) == IF n < 10 THEN Digit(n) ELSE ToStr(n \div 10) \o Digit(n % 10)

RECURSIVE ZeroPad(_, _)
ZeroPad(s, width) == IF Len(s) >= width THEN s ELSE ZeroPad("0" \o s, width)

PadWidth == 4

\* mutant of RunFileName: the index written without padding
RunFileNameUnpadded(i) == "run_" \o ToStr(i) \o ".slurm"

\* f"run_{i:04d}.slurm"
RunFileName(i) == "run_" \o ZeroPad(ToStr(i), PadWidth) \o ".slurm"

\* f"job_{job_index}.slurm"
JobFileName(i) == "job_" \o ToStr(i) \o ".slurm"

(***************************************************************************)
(* str.replace and render_slurm_template                                   *)
(***************************************************************************)
\* mutant of Replace: str.replace(old, new, 1), the first occurrence only
ReplaceFirst(s, old, new) ==
    LET at == {i \in 1..(Len(s) - Len(old) + 1) : SubSeq(s, i, i + Len(old) - 1) = old}
    IN  IF at = {} THEN s
        ELSE LET i == CHOOSE x \in at : \A y \in at : x <= y
             IN  SubSeq(s, 1, i - 1) \o new \o SubSeq(s, i + Len(old), Len(s))

RECURSIVE Replace(_, _, _)
Replace(s, old, new) ==
    LET at == {i \in 1..(Len(s) - Len(old) + 1) : SubSeq(s, i, i + Len(old) - 1) = old}
    IN  IF at = {} THEN s
        ELSE LET i == CHOOSE x \in at : \A y \in at : x <= y
             IN  SubSeq(s, 1, i - 1) \o new
                     \o Replace(SubSeq(s, i + Len(old), Len(s)), old, new)

Token(key) == "{{" \o key \o "}}"

RECURSIVE render_slurm_template(_, _)
render_slurm_template(template_content, params) ==
    IF params = <<>> THEN template_content
    ELSE render_slurm_template(
            Replace(template_content, Token(Head(params).key), Head(params).val.text),
            Tail(params))

(***************************************************************************)
(* Inputs: the configuration files an invocation can find on disk.         *)
(***************************************************************************)
GridKeyNames == {"lr", "seed", "debug", "script"}

\* candidate values of each key, in file order
GridDomain(k) ==
    CASE k = "lr"     -> <<Str("0.1"), Str("0.01"), Str("0.001")>>
      [] k = "seed"   -> <<Str("1"), Str("2")>>
      [] k = "debug"  -> <<Bool(TRUE), Bool(FALSE)>>
      [] k = "script" -> <<Str("alt")>>

\* the value lists of a key: runs of at most MaxGridVals candidates
ValueLists(k) ==
    LET d == GridDomain(k)
    IN  UNION {{SubSeq(d, a, a + n - 1) : a \in 1..(Len(d) - n + 1)} :
                 n \in 0..MaxGridVals}

GridEntries ==
    UNION {{[key |-> k, vals |-> l] : l \in ValueLists(k)} : k \in GridKeyNames}

GridConfigs ==
    UNION {{g \in [1..n -> GridEntries] : DistinctKeys(g)} : n \in 0..MaxGridKeys}

ExpEntries ==
    {[key |-> "script",  val |-> Str("train")],
     [key |-> "batch",   val |-> Str("32")],
     [key |-> "verbose", val |-> Bool(TRUE)],
     [key |-> "verbose", val |-> Bool(FALSE)]}

ExperimentConfigs ==
    UNION {{e \in [1..n -> ExpEntries] : DistinctKeys(e)} : n \in 0..MaxExpKeys}

ProjectName    == "proj"
ExperimentName == "exp"
NoKey          == "<none>"
NoRemote       == ""
None           == [exists |-> FALSE, has_remotes |-> FALSE, remotes |-> <<>>]
EmptyDir       == [n \in {} |-> ""]

\* templates/slurm.template as installed next to the package
SlurmTemplate == "{{JOB_NAME}}|{{TIME}}|{{CMD}}"

\* the slurm_params dict of generate_jobs, cluster .conf without entries
JobSlurmParams(i, full_cmd) ==
    <<[key |-> "JOB_NAME",  val |-> Str(ExperimentName \o "-" \o ToStr(i))],
      [key |-> "ACCOUNT",   val |-> Str("default_account")],
      [key |-> "PARTITION", val |-> Str("debug")],
      [key |-> "TIME",      val |-> Str("00:10:00")],
      [key |-> "GPU_TYPE",  val |-> Str("")],
      [key |-> "NUM_GPUS",  val |-> Str("0")],
      [key |-> "CPUS",      val |-> Str("1")],
      [key |-> "MEMORY",    val |-> Str("4G")],
      [key |-> "MODULES",   val |-> Str("")],
      [key |-> "CMD",       val |-> Str(full_cmd)]>>

\* the top-level items conf/config.yaml gives every composed cfg
ConfigYamlItems ==
    [i \in 1..7 |->
        [key |-> <<"project", "cluster", "experiment", "grid",
                   "no_submit", "slurm_output_dir", "job_index">>[i],
         val |-> Str("")]]

\* open(path, 'w').write(text) / Path.write_text(text)
WriteFile(dir, name, text) ==
    [n \in (DOMAIN dir) \cup {name} |-> IF n = name THEN text ELSE dir[n]]

GenInit ==
    /\ op \in {"generate_jobs", "generate_slurm"}
    /\ grid_config \in GridConfigs
    /\ experiment_config \in ExperimentConfigs
    /\ pc = "start"
    /\ combinations = <<>>
    /\ job_idx = 0
    /\ runs_dir = EmptyDir
    /\ jobs = <<>>
    /\ launcher_failed = {}
    /\ round = 1
    /\ alone_dir = EmptyDir

SweepIdle ==
    /\ sweep_op = "none"
    /\ sweep_i = 0
    /\ sweep_prev = ""
    /\ sweep_last = ""

RenderIdle ==
    /\ tpl = ""
    /\ slurm_params = <<>>
    /\ missing = NoKey
    /\ r_pc = "idle"
    /\ rendered = ""

RemoteIdle ==
    /\ command = "none"
    /\ remote = NoRemote
    /\ project_config = None
    /\ has_project_dir = FALSE
    /\ has_sif = FALSE
    /\ slurm_runs = [exists |-> FALSE, scripts |-> <<>>]
    /\ rpc = "idle"
    /\ after_sync = "none"
    /\ todo = <<>>
    /\ events = <<>>
    /\ local_ran = FALSE
    /\ exit_code = 0

NoAction == [action |-> "none", name |-> "", declined |-> FALSE, before |-> <<>>]

TestIdle ==
    /\ c_out = <<>>
    /\ pipe = <<>>
    /\ c_state = "none"
    /\ c_rc = 0
    /\ t_pc = "idle"
    /\ printed = <<>>
    /\ detected = FALSE
    /\ t_exit = 0

DatasetIdle ==
    /\ dataset_command = ""
    /\ marker = FALSE
    /\ d_pc = "idle"
    /\ d_log = <<>>

ConfigureIdle ==
    /\ cfg_remotes = <<>>
    /\ cfg_pc = "idle"
    /\ cfg_n = 0
    /\ cfg_last = NoAction

AuxIdle == TestIdle /\ DatasetIdle /\ ConfigureIdle

GenIdle ==
    /\ op = "none"
    /\ grid_config = <<>>
    /\ experiment_config = <<>>
    /\ pc = "idle"
    /\ combinations = <<>>
    /\ job_idx = 0
    /\ runs_dir = EmptyDir
    /\ jobs = <<>>
    /\ launcher_failed = {}
    /\ round = 0
    /\ alone_dir = EmptyDir

Init == GenInit /\ SweepIdle /\ RenderIdle /\ RemoteIdle /\ AuxIdle

(***************************************************************************)
(* experiment_generator.generate_jobs                                      *)
(***************************************************************************)
LoadAndExpand ==
    /\ op = "generate_jobs"
    /\ pc = "start"
    /\ combinations' = generate_grid_combinations(grid_config)
    /\ job_idx' = 0
    /\ pc' = "loop"
    /\ UNCHANGED <<op, grid_config, experiment_config, runs_dir, jobs,
                   launcher_failed, round, alone_dir, sweepVars, renderVars, remoteVars, auxVars>>

WriteRun ==
    /\ op = "generate_jobs"
    /\ pc = "loop"
    /\ job_idx < Len(combinations)
    /\ LET i        == job_idx
           params   == combinations[i + 1]
           base_cmd == IF HasKey(experiment_config, "script")
                          THEN Lookup(experiment_config, "script").text
                          ELSE "python main.py"
           full_cmd == build_command(base_cmd, params)
           text     == render_slurm_template(SlurmTemplate, JobSlurmParams(i, full_cmd))
           name     == RunFileName(i)
       IN  /\ runs_dir' = WriteFile(runs_dir, name, text)
           /\ alone_dir' = WriteFile(alone_dir, name, text)
           /\ jobs' = Append(jobs, [idx |-> i, combo |-> params, base |-> base_cmd,
                                    params |-> params, cmd |-> full_cmd,
                                    name |-> name])
           /\ job_idx' = i + 1
    /\ UNCHANGED <<op, grid_config, experiment_config, pc, combinations,
                   launcher_failed, round, sweepVars, renderVars, remoteVars, auxVars>>

FinishGenerate ==
    /\ op = "generate_jobs"
    /\ pc = "loop"
    /\ job_idx = Len(combinations)
    /\ pc' = "done"
    /\ UNCHANGED <<op, grid_config, experiment_config, combinations, job_idx,
                   runs_dir, jobs, launcher_failed, round, alone_dir, sweepVars, renderVars, remoteVars, auxVars>>

(***************************************************************************)
(* cli.generate_slurm_command, one job_launcher.main process per index     *)
(***************************************************************************)
SlurmExpand ==
    /\ op = "generate_slurm"
    /\ pc = "start"
    /\ combinations' = product([i \in 1..Len(grid_config) |-> grid_config[i].vals])
    /\ job_idx' = 0
    /\ pc' = "loop"
    /\ UNCHANGED <<op, grid_config, experiment_config, runs_dir, jobs,
                   launcher_failed, round, alone_dir, sweepVars, renderVars, remoteVars, auxVars>>

SlurmLaunch ==
    /\ op = "generate_slurm"
    /\ pc = "loop"
    /\ job_idx < Len(combinations)
    /\ LET grid_keys == Keys(grid_config)
           cli_args  == DictZip(grid_keys, combinations[job_idx + 1])
           job_index == job_idx
           cfg       == [experiment |-> experiment_config,
                         items      |-> ConfigYamlItems \o cli_args]
       IN  IF HasKey(experiment_config, "script")
              THEN LET params == extract_params(cfg)
                       cmd    == launcher_build_command(
                                    Lookup(experiment_config, "script").text, params)
                       text   == ProjectName \o "-" \o ToStr(job_index) \o "|" \o cmd
                       name   == JobFileName(job_index)
                   IN  /\ runs_dir' = WriteFile(runs_dir, name, text)
                       /\ alone_dir' = WriteFile(alone_dir, name, text)
                       /\ jobs' = Append(jobs,
                                    [idx |-> job_index, combo |-> cli_args,
                                     base |-> Lookup(experiment_config, "script").text,
                                     params |-> params, cmd |-> cmd, name |-> name])
                       /\ UNCHANGED launcher_failed
              ELSE \* cfg.experiment.script is None: the process dies, the loop goes on
                   /\ launcher_failed' = launcher_failed \cup {job_index}
                   /\ UNCHANGED <<runs_dir, alone_dir, jobs>>
    /\ job_idx' = job_idx + 1
    /\ UNCHANGED <<op, grid_config, experiment_config, pc, combinations,
                   round, sweepVars, renderVars, remoteVars, auxVars>>

SlurmFinish ==
    /\ op = "generate_slurm"
    /\ pc = "loop"
    /\ job_idx = Len(combinations)
    /\ pc' = "done"
    /\ UNCHANGED <<op, grid_config, experiment_config, combinations, job_idx,
                   runs_dir, jobs, launcher_failed, round, alone_dir, sweepVars, renderVars, remoteVars, auxVars>>

Next ==
    \/ LoadAndExpand
    \/ WriteRun
    \/ FinishGenerate
    \/ SlurmExpand
    \/ SlurmLaunch
    \/ SlurmFinish

Spec == Init /\ [][Next]_vars

(***************************************************************************)
(* The same command run again into the same run directory with a changed   *)
(* grid file.  Neither writer removes anything: both create the directory  *)
(* with exist_ok and open each script for writing.                         *)
(***************************************************************************)
MaxRounds == 2

RegenGrids == {g \in GridConfigs : Len(g) <= 1}

Regenerate ==
    /\ op \in {"generate_jobs", "generate_slurm"}
    /\ pc = "done"
    /\ round < MaxRounds
    /\ \E g \in RegenGrids : grid_config' = g
    /\ pc' = "start"
    /\ combinations' = <<>>
    /\ job_idx' = 0
    /\ jobs' = <<>>
    /\ launcher_failed' = {}
    /\ alone_dir' = EmptyDir
    /\ round' = round + 1
    /\ UNCHANGED <<op, experiment_config, runs_dir, sweepVars, renderVars,
                   remoteVars, auxVars>>

InitRegen ==
    /\ Init
    /\ grid_config \in RegenGrids

RegenNext == Next \/ Regenerate

SpecRegen == InitRegen /\ [][RegenNext]_vars

(***************************************************************************)
(* Grid expansion                                                          *)
(***************************************************************************)
RECURSIVE SizeProduct(_)
SizeProduct(grid) ==
    IF grid = <<>> THEN 1 ELSE Len(Head(grid).vals) * SizeProduct(Tail(grid))

HasEmptyList(grid) == \E i \in 1..Len(grid) : grid[i].vals = <<>>

\* the i-th combination (from 0) of the product order, first key slowest:
\* the mixed-radix digits of i, the last key the least significant
NthCombination(grid, i) ==
    [p \in 1..Len(grid) |->
        [key |-> grid[p].key,
         val |-> grid[p].vals[((i \div SizeProduct(SubSeq(grid, p + 1, Len(grid))))
                               % Len(grid[p].vals)) + 1]]]

\* C1: generate_grid_combinations returns n1*...*nn combinations, and each
\* maps exactly the grid's keys, each key to a value of that key's list.
C1_ProductOfSizes ==
    (op = "generate_jobs" /\ pc # "start") =>
        /\ Len(combinations) = SizeProduct(grid_config)
        /\ \A c \in 1..Len(combinations) :
              LET m == combinations[c]
              IN  /\ Len(m) = Len(grid_config)
                  /\ KeySet(m) = KeySet(grid_config)
                  /\ \A e \in 1..Len(m) :
                        \E g \in 1..Len(grid_config) :
                           /\ grid_config[g].key = m[e].key
                           /\ \E v \in 1..Len(grid_config[g].vals) :
                                 grid_config[g].vals[v] = m[e].val

C1_Witness ==
    /\ op = "generate_jobs"
    /\ pc = "loop"
    /\ Len(grid_config) = 2
    /\ Len(grid_config[1].vals) = 2
    /\ Len(grid_config[2].vals) = 2
    /\ Len(combinations) = 4

\* C2: on both generation paths the script written for job index i carries
\* the i-th combination of the product order of the grid's keys, the first
\* key varying slowest and the last fastest.
C2_IndexIsProductOrder ==
    \A k \in 1..Len(jobs) :
        /\ jobs[k].idx = k - 1
        /\ jobs[k].combo = NthCombination(grid_config, jobs[k].idx)

C2_Witness ==
    /\ pc = "done"
    /\ Len(jobs) = 4
    /\ Keys(grid_config) = <<"lr", "seed">>
    /\ jobs[2].combo = <<[key |-> "lr", val |-> Str("0.1")],
                         [key |-> "seed", val |-> Str("2")]>>
    /\ jobs[3].combo = <<[key |-> "lr", val |-> Str("0.01")],
                         [key |-> "seed", val |-> Str("1")]>>

\* C3: a grid with a key mapped to an empty value list is rejected before
\* expansion: no generation run of such a grid completes.
C3_EmptyListRejected ==
    HasEmptyList(grid_config) => pc = "start"

\* C4: the empty grid expands to exactly one combination, the empty
\* mapping, and generate_jobs then writes exactly one job script.
C4_EmptyGridOneJob ==
    (op = "generate_jobs" /\ grid_config = <<>>) =>
        /\ pc # "start" => combinations = << <<>> >>
        /\ pc = "done" => /\ Cardinality(DOMAIN runs_dir) = 1
                          /\ Len(jobs) = 1
                          /\ jobs[1].combo = <<>>

C4_Witness ==
    /\ op = "generate_jobs"
    /\ grid_config = <<>>
    /\ pc = "done"
    /\ DOMAIN runs_dir = {RunFileName(0)}

(***************************************************************************)
(* Command building                                                        *)
(***************************************************************************)
Contains(s, sub) ==
    \E i \in 1..(Len(s) - Len(sub) + 1) : SubSeq(s, i, i + Len(sub) - 1) = sub

\* the words of a command line: its maximal runs of non-space characters
RECURSIVE WordsFrom(_, _)
WordsFrom(s, cur) ==
    IF s = "" THEN (IF cur = "" THEN <<>> ELSE <<cur>>)
    ELSE IF Head(s) = " "
        THEN (IF cur = "" THEN <<>> ELSE <<cur>>) \o WordsFrom(Tail(s), "")
        ELSE WordsFrom(Tail(s), cur \o Head(s))

Words(s) == WordsFrom(s, "")

StartsWith(s, prefix) ==
    Len(s) >= Len(prefix) /\ SubSeq(s, 1, Len(prefix)) = prefix

\* the words one parameter contributes under the rendering policy
PolicyFlag(e) ==
    IF e.val.isbool
        THEN (IF e.val.text = "True" THEN <<"--" \o e.key>> ELSE <<>>)
        ELSE <<"--" \o e.key, e.val.text>>

RECURSIVE PolicyFlags(_)
PolicyFlags(params) ==
    IF params = <<>> THEN <<>>
    ELSE PolicyFlag(Head(params)) \o PolicyFlags(Tail(params))

\* parameter e is rendered in the command words w as the policy says
RenderedByPolicy(w, e) ==
    LET flag == "--" \o e.key
    IN  IF e.val.isbool
           THEN IF e.val.text = "True"
                   THEN \E i \in 1..Len(w) :
                           /\ w[i] = flag
                           /\ i < Len(w) => StartsWith(w[i + 1], "--")
                   ELSE \A i \in 1..Len(w) : ~StartsWith(w[i], flag)
           ELSE \E i \in 1..(Len(w) - 1) :
                   w[i] = flag /\ w[i + 1] = e.val.text

\* C5: both command builders render a true boolean as the bare flag --key,
\* a false boolean as nothing and any other value as "--key value".
C5_FlagPolicy ==
    \A k \in 1..Len(jobs) :
        \A p \in 1..Len(jobs[k].params) :
            RenderedByPolicy(Words(jobs[k].cmd), jobs[k].params[p])

\* C6: every job's command is the experiment's script, then one flag per
\* fixed experiment parameter in experiment-config order, then one flag per
\* swept parameter of the job's combination in grid key order.
C6_FixedThenSwept ==
    \A k \in 1..Len(jobs) :
        HasKey(experiment_config, "script") =>
            Words(jobs[k].cmd) =
                Words(Lookup(experiment_config, "script").text)
                \o PolicyFlags(DictPop(experiment_config, "script") \o jobs[k].combo)

\* C7: no built command carries a --script flag.
C7_NoScriptFlag ==
    \A k \in 1..Len(jobs) : ~Contains(jobs[k].cmd, "--script")

(***************************************************************************)
(* Long sweeps: the file names the two writers give to job 0, 1, 2, ...    *)
(***************************************************************************)
SweepInit ==
    /\ sweep_op \in {"generate_jobs", "generate_slurm"}
    /\ sweep_i = 0
    /\ sweep_prev = ""
    /\ sweep_last = ""

\* generate_jobs, iteration sweep_i of the loop: the file it opens
SweepWriteRun ==
    /\ sweep_op = "generate_jobs"
    /\ sweep_i < MaxSweep
    /\ sweep_prev' = sweep_last
    /\ sweep_last' = RunFileName(sweep_i)
    /\ sweep_i' = sweep_i + 1
    /\ UNCHANGED <<sweep_op, genVars, renderVars, remoteVars, auxVars>>

\* generate-slurm, job_launcher.main with job_index = sweep_i: the file it writes
SweepWriteJob ==
    /\ sweep_op = "generate_slurm"
    /\ sweep_i < MaxSweep
    /\ sweep_prev' = sweep_last
    /\ sweep_last' = JobFileName(sweep_i)
    /\ sweep_i' = sweep_i + 1
    /\ UNCHANGED <<sweep_op, genVars, renderVars, remoteVars, auxVars>>

SweepNext == SweepWriteRun \/ SweepWriteJob

InitSweep == GenIdle /\ SweepInit /\ RenderIdle /\ RemoteIdle /\ AuxIdle

SpecSweep == InitSweep /\ [][SweepNext]_vars

\* code-point order of the characters of a file name
CharOrder == "-.0123456789_abcdefghijklmnopqrstuvwxyz"
Ord(c) == CHOOSE i \in 1..Len(CharOrder) : SubSeq(CharOrder, i, i) = c

\* a < b in Python's string order
RECURSIVE LexLess(_, _)
LexLess(a, b) ==
    IF a = "" THEN b # ""
    ELSE IF b = "" THEN FALSE
    ELSE IF Head(a) = Head(b) THEN LexLess(Tail(a), Tail(b))
    ELSE Ord(Head(a)) < Ord(Head(b))

RECURSIVE Pow10(_)
Pow10(n) == IF n = 0 THEN 1 ELSE 10 * Pow10(n - 1)

\* C9: for every N up to 10,000 = 10^PadWidth the N files run_<index>.slurm
\* of generate_jobs are distinct and sort lexicographically in index order:
\* each file written is greater than the one written before it, and the
\* order being transitive, greater than all written before.
C9_RunNamesSorted ==
    (sweep_op = "generate_jobs" /\ sweep_i >= 1 /\ sweep_i <= Pow10(PadWidth)) =>
        /\ StartsWith(sweep_last, "run_")
        /\ sweep_i >= 2 => LexLess(sweep_prev, sweep_last)

C9_Witness ==
    /\ sweep_op = "generate_jobs"
    /\ sweep_i = 10 * 1000
    /\ sweep_prev = "run_9998.slurm"
    /\ sweep_last = "run_9999.slurm"

\* C10: the files job_launcher.main writes on the generate-slurm path sort
\* lexicographically in job-index order, for every number of jobs.
C10_JobNamesSorted ==
    (sweep_op = "generate_slurm" /\ sweep_i >= 2) => LexLess(sweep_prev, sweep_last)

(***************************************************************************)
(* Template rendering: one call of render_slurm_template, with the full    *)
(* variable mapping or with one of its variables left out.                 *)
(***************************************************************************)
TemplateSegments == {"{{A}}", "{{B}}", "x", "{{", "}}"}

Templates ==
    {Join(segs, "") : segs \in UNION {[1..n -> TemplateSegments] : n \in 0..MaxSegs}}

VarEntries ==
    {[key |-> "A", val |-> Str("a1")], [key |-> "A", val |-> Str("{{B}}")],
     [key |-> "B", val |-> Str("b1")], [key |-> "B", val |-> Str("{{A}}")]}

VarMappings ==
    UNION {{m \in [1..n -> VarEntries] : DistinctKeys(m)} : n \in 0..2}

RenderInit ==
    /\ tpl \in Templates
    /\ slurm_params \in VarMappings
    /\ missing = NoKey
    /\ r_pc = "ready"
    /\ rendered = ""

RenderAll ==
    /\ r_pc = "ready"
    /\ rendered' = render_slurm_template(tpl, slurm_params)
    /\ r_pc' = "rendered"
    /\ UNCHANGED <<tpl, slurm_params, missing, genVars, sweepVars, remoteVars, auxVars>>

RenderWithout ==
    /\ r_pc = "ready"
    /\ \E k \in KeySet(slurm_params) :
          /\ missing' = k
          /\ rendered' = render_slurm_template(tpl, DictPop(slurm_params, k))
    /\ r_pc' = "rendered"
    /\ UNCHANGED <<tpl, slurm_params, genVars, sweepVars, remoteVars, auxVars>>

RenderNext == RenderAll \/ RenderWithout

InitRender == GenIdle /\ SweepIdle /\ RenderInit /\ RemoteIdle /\ AuxIdle

SpecRender == InitRender /\ [][RenderNext]_vars

IsBrace(c) == c = "{" \/ c = "}"

\* length of the placeholder token {{NAME}} that s starts with, 0 if none:
\* NAME is a non-empty run of characters that are not delimiters
TokenLen(s) ==
    IF ~StartsWith(s, "{{") THEN 0
    ELSE LET ends == {j \in 4..(Len(s) - 1) :
                        /\ SubSeq(s, j, j + 1) = "}}"
                        /\ \A q \in 3..(j - 1) : ~IsBrace(SubSeq(s, q, q))}
         IN  IF ends = {} THEN 0 ELSE (CHOOSE j \in ends : TRUE) + 1

Suffix(s, i) == SubSeq(s, i, Len(s))

HasToken(s) == \E i \in 1..Len(s) : TokenLen(Suffix(s, i)) > 0

TokenNames(s) ==
    {SubSeq(s, i + 2, i + TokenLen(Suffix(s, i)) - 3) :
        i \in {x \in 1..Len(s) : TokenLen(Suffix(s, x)) > 0}}

\* a delimiter character outside every placeholder token
RECURSIVE HasStray(_)
HasStray(s) ==
    IF s = "" THEN FALSE
    ELSE IF TokenLen(s) > 0 THEN HasStray(Suffix(s, TokenLen(s) + 1))
    ELSE IsBrace(Head(s)) \/ HasStray(Tail(s))

PlainValues(m) == \A i \in 1..Len(m) : ~HasStray(m[i].val.text) /\ ~HasToken(m[i].val.text)

Occurrences(s, sub) ==
    Cardinality({i \in 1..(Len(s) - Len(sub) + 1) : SubSeq(s, i, i + Len(sub) - 1) = sub})

\* the template with each placeholder that m names replaced, in one pass,
\* by its value, and everything else copied
RECURSIVE Substitute(_, _)
Substitute(s, m) ==
    IF s = "" THEN ""
    ELSE LET n == TokenLen(s)
         IN  IF n > 0 /\ HasKey(m, SubSeq(s, 3, n - 2))
                THEN Lookup(m, SubSeq(s, 3, n - 2)).text \o Substitute(Suffix(s, n + 1), m)
                ELSE Head(s) \o Substitute(Tail(s), m)

C11_FullReplace ==
    (pc = "done" /\ round > 1 /\ ~HasEmptyList(grid_config))
        => runs_dir = alone_dir

(***************************************************************************)
(* Remote execution: remote.py and the commands of cli.py that take a      *)
(* --remote option.  A remote_config is a record; init_commands is its     *)
(* list of initialization commands, has_base tells whether the key         *)
(* remote_base_path is present.                                            *)
(***************************************************************************)
MaxInit    == 2
MaxScripts == 2

\* str(Path.home()) on the local machine
LocalHome == "/home/me"

InitCommandPool == <<"source env.sh", "module load cuda", "conda activate jm",
                     "ulimit -n 4096">>
InitCommandLists ==
    {SubSeq(InitCommandPool, 1, n) : n \in 0..Min(MaxInit, Len(InitCommandPool))}

RemoteConfigs ==
    [init_commands : InitCommandLists, has_base : BOOLEAN,
     remote_base_path : {"/scratch/u"}]

RegisteredName   == "r1"
UnregisteredName == "r2"

ProjectConfigs ==
    {None, [exists |-> TRUE, has_remotes |-> FALSE, remotes |-> <<>>]}
    \cup {[exists |-> TRUE, has_remotes |-> TRUE,
           remotes |-> <<[key |-> RegisteredName, val |-> rc]>>] :
          rc \in RemoteConfigs}

ScriptPool == [i \in 1..4 |-> JobFileName(i - 1)]
ScriptLists ==
    {SubSeq(ScriptPool, 1, n) : n \in 0..Min(MaxScripts, Len(ScriptPool))}

DispatchCommands ==
    {"configure", "build", "convert", "template", "test",
     "test-singularity", "list-images", "fix-and-rerun", "shell"}
IgnoringCommands == {"generate-slurm", "generate-and-submit"}
CliCommands ==
    DispatchCommands \cup IgnoringCommands
        \cup {"submit-slurm", "setup-remote-test-env"}
FunctionCalls == {"sync_project_to_remote", "run_remote_command"}

\* `"remotes" not in config or remote not in config["remotes"]`
Unregistered(config, name) ==
    ~config.has_remotes \/ ~HasKey(config.remotes, name)

(***************************************************************************)
(* remote.run_remote_command: the command line handed to ssh.              *)
(***************************************************************************)
WithInitSemicolon(init_commands, cmd) ==
    IF init_commands # <<>>
       THEN Join(init_commands, "; ") \o "; " \o cmd
       ELSE cmd

WithInit(init_commands, cmd) ==
    IF init_commands # <<>>
       THEN Join(init_commands, " && ") \o " && " \o cmd
       ELSE cmd

(***************************************************************************)
(* The remote shell.  The command line is a list of lines, each line an    *)
(* and-list of simple commands.  A line stops at its first failing         *)
(* command; the next line starts whatever the line before returned; the    *)
(* exit status is that of the last line.                                   *)
(***************************************************************************)
RECURSIVE SplitFrom(_, _, _)
SplitFrom(s, sep, from) ==
    LET at == {i \in from..(Len(s) - Len(sep) + 1) :
                  SubSeq(s, i, i + Len(sep) - 1) = sep}
    IN  IF at = {} THEN <<SubSeq(s, from, Len(s))>>
        ELSE LET i == CHOOSE x \in at : \A y \in at : x <= y
             IN  <<SubSeq(s, from, i - 1)>> \o SplitFrom(s, sep, i + Len(sep))

Split(s, sep) == SplitFrom(s, sep, 1)

ShellLines(sent) ==
    LET ls == Split(sent, "\n")
    IN  [i \in 1..Len(ls) |-> Split(ls[i], " && ")]

RECURSIVE CountCommands(_)
CountCommands(lines) ==
    IF lines = <<>> THEN 0 ELSE Len(Head(lines)) + CountCommands(Tail(lines))

\* Runs the lines; the simple commands are numbered 1, 2, ... across lines,
\* command number fail_at (0: none) ends with status code, every other with 0.
RECURSIVE ShellRunFrom(_, _, _, _)
ShellRunFrom(lines, offset, fail_at, code) ==
    IF lines = <<>>
       THEN [executed |-> <<>>, rc |-> 0]
       ELSE LET n     == Len(Head(lines))
                fails == fail_at \in (offset + 1)..(offset + n)
                last  == IF fails THEN fail_at ELSE offset + n
                here  == [k \in 1..(last - offset) |-> offset + k]
                rest  == ShellRunFrom(Tail(lines), offset + n, fail_at, code)
            IN  [executed |-> here \o rest.executed,
                 rc       |-> IF Len(lines) = 1
                                 THEN (IF fails THEN code ELSE 0)
                                 ELSE rest.rc]

ShellRun(sent, fail_at, code) == ShellRunFrom(ShellLines(sent), 0, fail_at, code)

(***************************************************************************)
(* Paths and command strings.                                              *)
(***************************************************************************)
\* The context a command receives is the command's own click context:
\* invoked_subcommand is set on the context of the group that dispatches to a
\* subcommand and keeps its initial value None on the command's own context,
\* whose info_name is the command name.  The f-string formats None as "None".
CommandContext(cmd) == [info_name |-> cmd, invoked_subcommand |-> "None"]

DispatchBase(remote_config) ==
    IF remote_config.has_base THEN remote_config.remote_base_path
                              ELSE "~/remote-job-manager-workspace"

SyncBase(remote_config) ==
    IF remote_config.has_base THEN remote_config.remote_base_path
                              ELSE LocalHome

command_str(ctx, remote_config, project_name) ==
    "cd " \o DispatchBase(remote_config) \o "/" \o project_name
        \o " && job-manager " \o ctx.invoked_subcommand
        \o " --project-name " \o project_name

ProjectDest(remote_config, project_name) ==
    SyncBase(remote_config) \o "/" \o project_name

setup_command(remote_config, project_name) ==
    "mkdir -p " \o ProjectDest(remote_config, project_name)

submit_cmd(remote_config, project_name, experiment_name, script) ==
    "sbatch " \o DispatchBase(remote_config) \o "/" \o project_name
        \o "/output/" \o project_name \o "/slurm_runs/" \o experiment_name
        \o "/" \o script

RepoUrl        == "git@h:r.git"
DatasetCommand == "wget d"

\* templates/prepare_remote_test_env.sh: a script of several lines that
\* creates the directories, clones the repository and fetches the dataset.
SetupScriptTemplate ==
    "mkdir -p {{remote_test_dir}}\ngit clone {{repo_url}} {{remote_test_dir}}/repo\n{{dataset_command}}"

setup_script(remote_config, project_name) ==
    LET remote_test_dir == ProjectDest(remote_config, project_name) \o "/test"
        c1 == Replace(SetupScriptTemplate, "{{remote_test_dir}}", remote_test_dir)
        c2 == Replace(c1, "{{repo_url}}", RepoUrl)
    IN  Replace(c2, "{{dataset_command}}", DatasetCommand)

(***************************************************************************)
(* External processes and their outcomes.                                  *)
(***************************************************************************)
FailCodes == {1, 2}

SshOutcomes(sent) ==
    {[ran |-> FALSE, fail_at |-> 0, code |-> 0],
     [ran |-> TRUE,  fail_at |-> 0, code |-> 0]}
    \cup [ran : {TRUE}, fail_at : 1..CountCommands(ShellLines(sent)),
          code : FailCodes]

ProcessOutcomes ==
    {[ran |-> FALSE, rc |-> 0]} \cup [ran : {TRUE}, rc : {0} \cup FailCodes]

Event(kind, target, sent, n_init, ran, fail_at, executed, rc, dest) ==
    [kind |-> kind, target |-> target, sent |-> sent, n_init |-> n_init,
     ran |-> ran, fail_at |-> fail_at, executed |-> executed, rc |-> rc,
     dest |-> dest]

Succeeded(e) == e.ran /\ e.rc = 0

\* The except blocks of remote.py: a missing binary and a non-zero return
\* code both end in `raise typer.Exit(code=1)`.
AfterProcessIgnoringFailure(ok, ok_pc, ok_exit) ==
    [rpc |-> ok_pc, exit_code |-> ok_exit]

AfterProcess(ok, ok_pc, ok_exit) ==
    IF ok THEN [rpc |-> ok_pc, exit_code |-> ok_exit]
          ELSE [rpc |-> "exited", exit_code |-> 1]

RemoteConfigOf(config, name) == Lookup(config.remotes, name)

\* remote.run_remote_command(remote_config, cmd), continuing at ok_pc
run_remote_command(remote_config, cmd, ok_pc, ok_exit) ==
    LET sent == WithInit(remote_config.init_commands, cmd)
    IN  \E o \in SshOutcomes(sent) :
            LET run == IF o.ran THEN ShellRun(sent, o.fail_at, o.code)
                                ELSE [executed |-> <<>>, rc |-> 0]
                e   == Event("ssh", cmd, sent, Len(remote_config.init_commands),
                             o.ran, o.fail_at, run.executed, run.rc, "")
                nxt == AfterProcess(Succeeded(e), ok_pc, ok_exit)
            IN  /\ events' = Append(events, e)
                /\ rpc' = nxt.rpc
                /\ exit_code' = nxt.exit_code

rsyncUnchecked(src, dest, ok_pc, ok_exit) ==
    \E o \in ProcessOutcomes :
        /\ events' = Append(events, Event("rsync", src, "", 0, o.ran, 0, <<>>,
                                          o.rc, dest))
        /\ rpc' = ok_pc
        /\ exit_code' = ok_exit

\* an rsync transfer of src into the remote directory dest
rsync(src, dest, ok_pc, ok_exit) ==
    \E o \in ProcessOutcomes :
        LET e   == Event("rsync", src, "", 0, o.ran, 0, <<>>, o.rc, dest)
            nxt == AfterProcess(Succeeded(e), ok_pc, ok_exit)
        IN  /\ events' = Append(events, e)
            /\ rpc' = nxt.rpc
            /\ exit_code' = nxt.exit_code

(***************************************************************************)
(* One invocation: a CLI command, or a direct call of a remote.py          *)
(* function with the remote_config registered under RegisteredName.        *)
(* config.yaml lives in output/<project>, the run directory and the image  *)
(* below it.                                                               *)
(***************************************************************************)
RemoteInit ==
    /\ command \in CliCommands \cup FunctionCalls
    /\ remote \in {NoRemote, RegisteredName, UnregisteredName}
    /\ project_config \in ProjectConfigs
    /\ has_project_dir \in BOOLEAN
    /\ has_sif \in BOOLEAN
    /\ slurm_runs \in [exists : BOOLEAN, scripts : ScriptLists]
    /\ command \in CliCommands => (project_config.exists => has_project_dir)
    /\ command \in FunctionCalls =>
           /\ remote = RegisteredName
           /\ ~Unregistered(project_config, remote)
    /\ command = "setup-remote-test-env" => remote # NoRemote
    /\ IF command = "setup-remote-test-env"
          THEN has_sif => has_project_dir
          ELSE ~has_sif
    /\ IF command = "submit-slurm"
          THEN /\ slurm_runs.exists => has_project_dir
               /\ ~slurm_runs.exists => slurm_runs.scripts = <<>>
          ELSE slurm_runs = [exists |-> FALSE, scripts |-> <<>>]
    /\ rpc = "start"
    /\ after_sync = "none"
    /\ todo = <<>>
    /\ events = <<>>
    /\ local_ran = FALSE
    /\ exit_code = 0

Exit(code) ==
    /\ rpc' = "exited"
    /\ exit_code' = code

\* cli.dispatch_to_remote_if_needed up to the call of sync_project_to_remote
DispatchValidate ==
    /\ command \in DispatchCommands
    /\ rpc = "start"
    /\ IF remote = NoRemote
          THEN rpc' = "local" /\ UNCHANGED <<exit_code, after_sync>>
          ELSE IF ~project_config.exists
                  \* `"remotes" not in None` raises TypeError
                  THEN Exit(1) /\ UNCHANGED after_sync
                  ELSE IF Unregistered(project_config, remote)
                          THEN Exit(1) /\ UNCHANGED after_sync
                          ELSE /\ rpc' = "sync"
                               /\ after_sync' = "dispatch_run"
                               /\ UNCHANGED exit_code
    /\ UNCHANGED <<command, remote, project_config, has_project_dir, has_sif,
                   slurm_runs, todo, events, local_ran, genVars, sweepVars,
                   renderVars, auxVars>>

\* generate-slurm and generate-and-submit declare --remote and never read it
IgnoreRemote ==
    /\ command \in IgnoringCommands
    /\ rpc = "start"
    /\ rpc' = "local"
    /\ UNCHANGED <<command, remote, project_config, has_project_dir, has_sif,
                   slurm_runs, after_sync, todo, events, local_ran, exit_code,
                   genVars, sweepVars, renderVars, auxVars>>

\* the body of a command, run on this machine
LocalBody ==
    /\ rpc = "local"
    /\ local_ran' = TRUE
    /\ \E code \in {0, 1} : Exit(code)
    /\ UNCHANGED <<command, remote, project_config, has_project_dir, has_sif,
                   slurm_runs, after_sync, todo, events, genVars, sweepVars,
                   renderVars, auxVars>>

\* a direct call of remote.sync_project_to_remote
CallSync ==
    /\ command = "sync_project_to_remote"
    /\ rpc = "start"
    /\ rpc' = "sync"
    /\ after_sync' = "returned"
    /\ UNCHANGED <<command, remote, project_config, has_project_dir, has_sif,
                   slurm_runs, todo, events, local_ran, exit_code, genVars,
                   sweepVars, renderVars, auxVars>>

\* a direct call of remote.run_remote_command with the command "run.sh"
CallRun ==
    /\ command = "run_remote_command"
    /\ rpc = "start"
    /\ run_remote_command(RemoteConfigOf(project_config, remote), "run.sh",
                          "returned", exit_code)
    /\ UNCHANGED <<command, remote, project_config, has_project_dir, has_sif,
                   slurm_runs, after_sync, todo, local_ran, genVars, sweepVars,
                   renderVars, auxVars>>

(***************************************************************************)
(* remote.sync_project_to_remote                                           *)
(***************************************************************************)
SyncEntryNoCheck(is_dir, return_pc) == "sync_mkdir"

SyncEntry(is_dir, return_pc) ==
    IF ~is_dir THEN return_pc ELSE "sync_mkdir"

SyncCheck ==
    /\ rpc = "sync"
    /\ rpc' = SyncEntry(has_project_dir, after_sync)
    /\ UNCHANGED <<command, remote, project_config, has_project_dir, has_sif,
                   slurm_runs, after_sync, todo, events, local_ran, exit_code,
                   genVars, sweepVars, renderVars, auxVars>>

SyncMkdir ==
    /\ rpc = "sync_mkdir"
    /\ LET remote_config == RemoteConfigOf(project_config, remote)
       IN  run_remote_command(remote_config,
                              setup_command(remote_config, ProjectName),
                              "sync_rsync", exit_code)
    /\ UNCHANGED <<command, remote, project_config, has_project_dir, has_sif,
                   slurm_runs, after_sync, todo, local_ran, genVars, sweepVars,
                   renderVars, auxVars>>

SyncRsync ==
    /\ rpc = "sync_rsync"
    /\ rsync("output/" \o ProjectName \o "/",
             ProjectDest(RemoteConfigOf(project_config, remote), ProjectName),
             after_sync, exit_code)
    /\ UNCHANGED <<command, remote, project_config, has_project_dir, has_sif,
                   slurm_runs, after_sync, todo, local_ran, genVars, sweepVars,
                   renderVars, auxVars>>

\* cli.dispatch_to_remote_if_needed after the sync: the command, then Exit()
DispatchRun ==
    /\ rpc = "dispatch_run"
    /\ run_remote_command(RemoteConfigOf(project_config, remote),
                          command_str(CommandContext(command),
                                      RemoteConfigOf(project_config, remote),
                                      ProjectName),
                          "exited", 0)
    /\ UNCHANGED <<command, remote, project_config, has_project_dir, has_sif,
                   slurm_runs, after_sync, todo, local_ran, genVars, sweepVars,
                   renderVars, auxVars>>

(***************************************************************************)
(* cli.submit_slurm_command                                                *)
(***************************************************************************)
\* list(slurm_runs_dir.glob("*.slurm")): the files in any order
GlobOrders(scripts) ==
    {o \in [1..Len(scripts) -> {scripts[i] : i \in 1..Len(scripts)}] :
        \A i, j \in 1..Len(scripts) : i # j => o[i] # o[j]}

SubmitStart ==
    /\ command = "submit-slurm"
    /\ rpc = "start"
    /\ has_project_dir' = TRUE          \* ensure_project_initialized
    /\ IF ~slurm_runs.exists
          THEN Exit(1) /\ UNCHANGED <<after_sync, todo>>
          ELSE IF slurm_runs.scripts = <<>>
                  THEN Exit(0) /\ UNCHANGED <<after_sync, todo>>
                  ELSE IF remote # NoRemote
                          THEN IF \/ ~project_config.exists
                                  \/ Unregistered(project_config, remote)
                                  THEN Exit(1) /\ UNCHANGED <<after_sync, todo>>
                                  ELSE /\ rpc' = "sync"
                                       /\ after_sync' = "submit_remote"
                                       /\ todo' \in GlobOrders(slurm_runs.scripts)
                                       /\ UNCHANGED exit_code
                          ELSE /\ rpc' = "submit_local"
                               /\ todo' \in GlobOrders(slurm_runs.scripts)
                               /\ UNCHANGED <<after_sync, exit_code>>
    /\ UNCHANGED <<command, remote, project_config, has_sif, slurm_runs,
                   events, local_ran, genVars, sweepVars, renderVars, auxVars>>

SubmitRemote ==
    /\ rpc = "submit_remote"
    /\ todo # <<>>
    /\ LET remote_config == RemoteConfigOf(project_config, remote)
       IN  run_remote_command(remote_config,
                              submit_cmd(remote_config, ProjectName,
                                         ExperimentName, Head(todo)),
                              "submit_remote", exit_code)
    /\ todo' = Tail(todo)
    /\ UNCHANGED <<command, remote, project_config, has_project_dir, has_sif,
                   slurm_runs, after_sync, local_ran, genVars, sweepVars,
                   renderVars, auxVars>>

\* local sbatch: a missing binary ends the command, a failed submission is
\* printed and the loop goes on
SubmitLocal ==
    /\ rpc = "submit_local"
    /\ todo # <<>>
    /\ \E o \in ProcessOutcomes :
        /\ events' = Append(events, Event("sbatch", Head(todo), "", 0, o.ran,
                                          0, <<>>, o.rc, ""))
        /\ IF o.ran THEN UNCHANGED <<rpc, exit_code>> ELSE Exit(1)
    /\ local_ran' = TRUE
    /\ todo' = Tail(todo)
    /\ UNCHANGED <<command, remote, project_config, has_project_dir, has_sif,
                   slurm_runs, after_sync, genVars, sweepVars, renderVars, auxVars>>

SubmitDone ==
    /\ rpc \in {"submit_remote", "submit_local"}
    /\ todo = <<>>
    /\ Exit(0)
    /\ UNCHANGED <<command, remote, project_config, has_project_dir, has_sif,
                   slurm_runs, after_sync, todo, events, local_ran, genVars,
                   sweepVars, renderVars, auxVars>>

(***************************************************************************)
(* cli.setup_remote_test_env, remote.prepare_remote_test_env and           *)
(* remote.sync_file_to_remote                                              *)
(***************************************************************************)
SetupValidate ==
    /\ command = "setup-remote-test-env"
    /\ rpc = "start"
    /\ IF ~project_config.exists \/ Unregistered(project_config, remote)
          THEN Exit(1)
          ELSE rpc' = "sync_file" /\ UNCHANGED exit_code
    /\ UNCHANGED <<command, remote, project_config, has_project_dir, has_sif,
                   slurm_runs, after_sync, todo, events, local_ran, genVars,
                   sweepVars, renderVars, auxVars>>

SyncFile ==
    /\ rpc = "sync_file"
    /\ IF ~has_sif
          THEN Exit(1) /\ UNCHANGED events
          ELSE rsync("output/" \o ProjectName \o "/" \o ProjectName \o ".sif",
                     ProjectDest(RemoteConfigOf(project_config, remote),
                                 ProjectName),
                     "setup_run", exit_code)
    /\ UNCHANGED <<command, remote, project_config, has_project_dir, has_sif,
                   slurm_runs, after_sync, todo, local_ran, genVars, sweepVars,
                   renderVars, auxVars>>

SetupRun ==
    /\ rpc = "setup_run"
    /\ LET remote_config == RemoteConfigOf(project_config, remote)
       IN  run_remote_command(remote_config,
                              setup_script(remote_config, ProjectName),
                              "exited", 0)
    /\ UNCHANGED <<command, remote, project_config, has_project_dir, has_sif,
                   slurm_runs, after_sync, todo, local_ran, genVars, sweepVars,
                   renderVars, auxVars>>

RemoteNext ==
    \/ DispatchValidate
    \/ IgnoreRemote
    \/ LocalBody
    \/ CallSync
    \/ CallRun
    \/ SyncCheck
    \/ SyncMkdir
    \/ SyncRsync
    \/ DispatchRun
    \/ SubmitStart
    \/ SubmitRemote
    \/ SubmitLocal
    \/ SubmitDone
    \/ SetupValidate
    \/ SyncFile
    \/ SetupRun

InitRemote == GenIdle /\ SweepIdle /\ RenderIdle /\ RemoteInit /\ AuxIdle

SpecRemote == InitRemote /\ [][RemoteNext]_vars

(***************************************************************************)
(* Dispatch and remote execution: claims.                                  *)
(***************************************************************************)
Remoting(e) == e.kind \in {"ssh", "rsync"}
OperationCommand(e) == e.kind = "ssh" /\ Contains(e.target, "job-manager ")
LastEvent == events[Len(events)]

\* C12: a CLI command given a remote name that the project does not register
\* ends with a non-zero exit code, and starts no ssh and no rsync process.
C12_UnregisteredFails ==
    ( /\ command \in CliCommands
      /\ remote # NoRemote
      /\ Unregistered(project_config, remote)
      /\ rpc = "exited" )
        => /\ exit_code # 0
           /\ \A i \in 1..Len(events) : ~Remoting(events[i])

\* C13: for every CLI command that takes --remote: with a registered remote
\* the local body never runs, and with no remote no ssh and no rsync process
\* is started.
C13_Exclusive ==
    command \in CliCommands =>
        /\ (remote # NoRemote /\ ~Unregistered(project_config, remote))
               => ~local_ran
        /\ remote = NoRemote => \A i \in 1..Len(events) : ~Remoting(events[i])

\* C14: in a dispatching command the operation command is sent only with a
\* registered remote, after every earlier process succeeded and one of them
\* was the project transfer; a remote name that is not registered ends the
\* command with a non-zero exit code before any process; a process that
\* fails is the last one started and the command ends with a non-zero exit
\* code.
C14_DispatchOrder ==
    command \in DispatchCommands =>
        /\ \A i \in 1..Len(events) :
              OperationCommand(events[i]) =>
                  /\ ~Unregistered(project_config, remote)
                  /\ \A j \in 1..(i - 1) : Succeeded(events[j])
                  /\ \E j \in 1..(i - 1) : events[j].kind = "rsync"
        /\ \A i \in 1..Len(events) :
              ~Succeeded(events[i]) =>
                  /\ i = Len(events)
                  /\ rpc = "exited"
                  /\ exit_code # 0
        /\ (remote # NoRemote /\ Unregistered(project_config, remote)
                /\ rpc # "start")
               => (rpc = "exited" /\ exit_code # 0 /\ events = <<>>)

C14_Witness ==
    /\ command \in DispatchCommands
    /\ rpc = "exited"
    /\ exit_code = 0
    /\ events # <<>>
    /\ OperationCommand(LastEvent)
    /\ Succeeded(LastEvent)

\* C15: the command a dispatching command sends to the remote names the
\* invoked operation and the project and holds no --remote option.
C15_SameOperation ==
    command \in DispatchCommands =>
        \A i \in 1..Len(events) :
            OperationCommand(events[i]) =>
                /\ Contains(events[i].target,
                            "job-manager " \o command \o " --project-name "
                                \o ProjectName)
                /\ ~Contains(events[i].target, "--remote")

\* C16: the command line given to ssh is the initialization commands in
\* their configured order and then the target command, joined by " && ";
\* with no initialization command it is the target command itself.
C16_InitChain ==
    \A i \in 1..Len(events) :
        events[i].kind = "ssh" =>
            LET init == RemoteConfigOf(project_config, remote).init_commands
                e    == events[i]
            IN  /\ e.sent = Join(init \o <<e.target>>, " && ")
                /\ init = <<>> => e.sent = e.target
                /\ (init = <<"source env.sh">> /\ e.target = "run.sh")
                       => e.sent = "source env.sh && run.sh"

C16_Witness ==
    /\ events # <<>>
    /\ LastEvent.kind = "ssh"
    /\ LastEvent.sent = "source env.sh && run.sh"

\* C17: in every remote command whose failing command is an initialization
\* command, no command of the target is executed.
C17_InitFailureAborts ==
    \A i \in 1..Len(events) :
        (events[i].kind = "ssh" /\ events[i].ran
            /\ events[i].fail_at \in 1..events[i].n_init)
          => \A k \in 1..Len(events[i].executed) :
                 events[i].executed[k] <= events[i].n_init

\* C18: when the remote command ends with a non-zero exit code c, the
\* invocation ends with exit code c.
C18_ExactCode ==
    ( /\ rpc = "exited"
      /\ events # <<>>
      /\ LastEvent.kind = "ssh"
      /\ LastEvent.ran
      /\ LastEvent.rc # 0 )
        => exit_code = LastEvent.rc

\* C19: before every rsync transfer that starts, a remote command that
\* creates the transfer's destination directory has run successfully.
C19_MkdirBeforeTransfer ==
    \A i \in 1..Len(events) :
        (events[i].kind = "rsync" /\ events[i].ran) =>
            \E j \in 1..(i - 1) :
                /\ events[j].kind = "ssh"
                /\ Succeeded(events[j])
                /\ events[j].target = "mkdir -p " \o events[i].dest

\* C20: sync_project_to_remote called while output/<project> is not a
\* directory returns normally and starts no process: no remote mkdir and no
\* transfer.
C20_AbsentDirSkips ==
    (command = "sync_project_to_remote" /\ ~has_project_dir)
        => /\ events = <<>>
           /\ rpc \in {"start", "sync", "returned"}
           /\ exit_code = 0

C20_Witness ==
    /\ command = "sync_project_to_remote"
    /\ ~has_project_dir
    /\ rpc = "returned"

(***************************************************************************)
(* Failures of transfers and submissions: claims.                          *)
(***************************************************************************)
EndsWith(s, suffix) ==
    /\ Len(suffix) <= Len(s)
    /\ SubSeq(s, Len(s) - Len(suffix) + 1, Len(s)) = suffix

Submission(e) ==
    \/ e.kind = "sbatch"
    \/ e.kind = "ssh" /\ StartsWith(e.target, "sbatch ")

Attempts(script) ==
    {i \in 1..Len(events) :
        Submission(events[i]) /\ EndsWith(events[i].target, script)}

ScriptsOfRun == {slurm_runs.scripts[i] : i \in 1..Len(slurm_runs.scripts)}

\* C21: an rsync transfer, of the project or of one file, whose binary is
\* missing or whose exit code is not zero is the last process the invocation
\* starts, and the invocation ends with a non-zero exit code.
C21_FailedTransferIsFatal ==
    \A i \in 1..Len(events) :
        (events[i].kind = "rsync" /\ ~Succeeded(events[i])) =>
            /\ i = Len(events)
            /\ rpc = "exited"
            /\ exit_code # 0

C21_Witness ==
    /\ events # <<>>
    /\ LastEvent.kind = "rsync"
    /\ LastEvent.ran
    /\ LastEvent.rc # 0
    /\ rpc = "exited"

\* C22: when submit-slurm has ended and every submission process it started
\* could be started, each script of the run was attempted exactly once.
C22_EveryScriptAttempted ==
    ( /\ command = "submit-slurm"
      /\ rpc = "exited"
      /\ \E i \in 1..Len(events) : Submission(events[i])
      /\ \A i \in 1..Len(events) : Submission(events[i]) => events[i].ran )
        => \A script \in ScriptsOfRun : Cardinality(Attempts(script)) = 1

\* C23: an invocation in which some external process ended with a non-zero
\* exit code ends with a non-zero exit code.
C23_NoFailureSwallowed ==
    ( /\ rpc = "exited"
      /\ \E i \in 1..Len(events) : events[i].ran /\ events[i].rc # 0 )
        => exit_code # 0

\* C26: the directory a dispatched command changes into is the destination
\* directory of the project transfer before it.
C26_SameRemoteDirectory ==
    command \in DispatchCommands =>
        \A i \in 1..Len(events) :
            OperationCommand(events[i]) =>
                \E j \in 1..(i - 1) :
                    /\ events[j].kind = "rsync"
                    /\ StartsWith(events[i].target,
                                  "cd " \o events[j].dest \o " ")

\* C27: in a remote submit-slurm every path given to sbatch is the place
\* where the project transfer before it put a script of the run: the
\* transfer copies the contents of output/<project> into its destination.
C27_SubmittedPathWasSynced ==
    command = "submit-slurm" =>
        \A i \in 1..Len(events) :
            (events[i].kind = "ssh" /\ Submission(events[i])) =>
                \E j \in 1..(i - 1) :
                    /\ events[j].kind = "rsync"
                    /\ \E script \in ScriptsOfRun :
                          events[i].target =
                              "sbatch " \o events[j].dest \o "/slurm_runs/"
                                  \o ExperimentName \o "/" \o script

(***************************************************************************)
(* Template rendering: order of the variable mapping.                      *)
(***************************************************************************)
Reverse(m) == [i \in 1..Len(m) |-> m[Len(m) + 1 - i]]

\* C29: the rendering of a template without stray delimiters is the one-pass
\* substitution of its placeholders, in which inserted values are not
\* scanned again, and is the same for the mapping iterated in the opposite
\* order, whatever the values contain.
C29_SimultaneousSubstitution ==
    (r_pc = "rendered" /\ missing = NoKey /\ ~HasStray(tpl)) =>
        /\ rendered = Substitute(tpl, slurm_params)
        /\ rendered = render_slurm_template(tpl, Reverse(slurm_params))

(***************************************************************************)
(* generate-slurm, run once or again, followed by a local submit-slurm of  *)
(* the same experiment run: submit-slurm globs the run directory.          *)
(***************************************************************************)
DirList(dir) ==
    CHOOSE q \in [1..Cardinality(DOMAIN dir) -> DOMAIN dir] :
        \A i, j \in 1..Cardinality(DOMAIN dir) : i # j => q[i] # q[j]

SubmitGenerated ==
    /\ op = "generate_slurm"
    /\ pc = "done"
    /\ pc' = "submitting"
    /\ command' = "submit-slurm"
    /\ rpc' = "start"
    /\ slurm_runs' = [exists |-> TRUE, scripts |-> DirList(runs_dir)]
    /\ UNCHANGED <<op, grid_config, experiment_config, combinations, job_idx,
                   runs_dir, jobs, launcher_failed, round, alone_dir, remote,
                   project_config, has_project_dir, has_sif, after_sync, todo,
                   events, local_ran, exit_code, sweepVars, renderVars, auxVars>>

InitRegenSubmit ==
    /\ InitRegen
    /\ op = "generate_slurm"

RegenSubmitNext ==
    \/ SlurmExpand
    \/ SlurmLaunch
    \/ SlurmFinish
    \/ Regenerate
    \/ SubmitGenerated
    \/ SubmitStart
    \/ SubmitLocal
    \/ SubmitDone

SpecRegenSubmit == InitRegenSubmit /\ [][RegenSubmitNext]_vars

\* C28: a submit-slurm that follows the generations of a run and ends after
\* starting sbatch for the scripts it found has submitted exactly the scripts
\* the most recent generation wrote (grids with an empty value list are left
\* to C3).
C28_SubmitsLatestGeneration ==
    ( /\ pc = "submitting"
      /\ rpc = "exited"
      /\ ~HasEmptyList(grid_config)
      /\ \A i \in 1..Len(events) : events[i].ran )
        => {events[i].target : i \in 1..Len(events)} = DOMAIN alone_dir

(***************************************************************************)
(* docker_utils.run_test_in_container.  The container writes its output,   *)
(* line by line, into a pipe that holds PipeCap lines; a write into a full *)
(* pipe blocks until the reader takes a line.  A line is "sig" when it     *)
(* contains one of wandb_error_patterns and "log" otherwise.               *)
(***************************************************************************)
MaxLines == 4
PipeCap  == 2

OutputLines == {"log", "sig"}
Outputs == UNION {[1..n -> OutputLines] : n \in 0..MaxLines}

oldVars == <<genVars, sweepVars, renderVars, remoteVars>>

TestInit ==
    /\ c_out \in Outputs
    /\ pipe = <<>>
    /\ c_state = "none"
    /\ c_rc \in {0} \cup FailCodes
    /\ t_pc = "popen"
    /\ printed = <<>>
    /\ detected = FALSE
    /\ t_exit = 0

\* subprocess.Popen(docker_command, stdout=PIPE): docker may be missing
Popen ==
    /\ t_pc = "popen"
    /\ \E found \in BOOLEAN :
          IF found
             THEN /\ c_state' = "running"
                  /\ t_pc' = "reading"
                  /\ UNCHANGED t_exit
             ELSE /\ t_pc' = "exited"
                  /\ t_exit' = 1
                  /\ UNCHANGED c_state
    /\ UNCHANGED <<c_out, pipe, c_rc, printed, detected, oldVars, datasetVars,
                   configureVars>>

ContainerWrite ==
    /\ c_state = "running"
    /\ c_out # <<>>
    /\ Len(pipe) < PipeCap
    /\ pipe' = Append(pipe, Head(c_out))
    /\ c_out' = Tail(c_out)
    /\ UNCHANGED <<c_state, c_rc, t_pc, printed, detected, t_exit, oldVars,
                   datasetVars, configureVars>>

ContainerExit ==
    /\ c_state = "running"
    /\ c_out = <<>>
    /\ c_state' = "exited"
    /\ UNCHANGED <<c_out, pipe, c_rc, t_pc, printed, detected, t_exit, oldVars,
                   datasetVars, configureVars>>

\* one pass of `for line in iter(process.stdout.readline, '')`
ReadLine ==
    /\ t_pc = "reading"
    /\ pipe # <<>>
    /\ pipe' = Tail(pipe)
    /\ IF detected
          THEN UNCHANGED <<printed, detected, t_pc>>       \* continue
          ELSE /\ printed' = Append(printed, Head(pipe))
               /\ IF Head(pipe) = "sig"
                     THEN detected' = TRUE /\ t_pc' = "waiting"   \* break
                     ELSE UNCHANGED <<detected, t_pc>>
    /\ UNCHANGED <<c_out, c_state, c_rc, t_exit, oldVars, datasetVars,
                   configureVars>>

\* readline returns '' once the container has exited and the pipe is empty
ReadEOF ==
    /\ t_pc = "reading"
    /\ pipe = <<>>
    /\ c_state = "exited"
    /\ t_pc' = "waiting"
    /\ UNCHANGED <<c_out, pipe, c_state, c_rc, printed, detected, t_exit,
                   oldVars, datasetVars, configureVars>>

\* process.wait() returns when the container has exited
Wait ==
    /\ t_pc = "waiting"
    /\ c_state = "exited"
    /\ t_pc' = "exited"
    /\ t_exit' = IF c_rc # 0 THEN 1 ELSE 0
    /\ UNCHANGED <<c_out, pipe, c_state, c_rc, printed, detected, oldVars,
                   datasetVars, configureVars>>

TestNext ==
    \/ Popen
    \/ ContainerWrite
    \/ ContainerExit
    \/ ReadLine
    \/ ReadEOF
    \/ Wait

InitTest ==
    GenIdle /\ SweepIdle /\ RenderIdle /\ RemoteIdle /\ TestInit
        /\ DatasetIdle /\ ConfigureIdle

SpecTest == InitTest /\ [][TestNext]_vars

\* C24: after a signature line nothing more is passed through, and the wait
\* for the container is never stuck: the invocation is never waiting for a
\* container that is blocked writing into the full pipe nobody reads.
C24_WaitNeverBlocks ==
    /\ \A i \in 1..Len(printed) : printed[i] = "sig" => i = Len(printed)
    /\ ~( /\ t_pc = "waiting"
          /\ c_state = "running"
          /\ c_out # <<>>
          /\ Len(pipe) = PipeCap )

(***************************************************************************)
(* web_utils.download_dataset, called again and again for one target       *)
(* directory that starts without the marker file.  d_log gets one entry    *)
(* per finished call: whether the dataset command ran, and its exit code.  *)
(***************************************************************************)
MaxCalls == 5

DatasetInit ==
    /\ dataset_command \in {"", DatasetCommand}
    /\ marker = FALSE
    /\ d_pc = "ready"
    /\ d_log = <<>>

\* mutant of MarkerAfterRun: the marker touched whatever the command returned
MarkerAfterRunAlways(rc) == TRUE

\* subprocess.run(check=True) then marker_file.touch(): the touch is skipped
\* when the command raises CalledProcessError
MarkerAfterRun(rc) == rc = 0

\* the call up to the start of the dataset command
DownloadCall ==
    /\ d_pc = "ready"
    /\ Len(d_log) < MaxCalls
    /\ IF dataset_command = "" \/ marker
          THEN /\ d_log' = Append(d_log, [ran |-> FALSE, rc |-> 0])
               /\ UNCHANGED d_pc
          ELSE /\ d_pc' = "running"
               /\ UNCHANGED d_log
    /\ UNCHANGED <<dataset_command, marker, oldVars, testVars, configureVars>>

\* the dataset command ends; a non-zero code ends the call with Exit(code=1)
DownloadEnds ==
    /\ d_pc = "running"
    /\ \E rc \in {0} \cup FailCodes :
          /\ marker' = (marker \/ MarkerAfterRun(rc))
          /\ d_log' = Append(d_log, [ran |-> TRUE, rc |-> rc])
    /\ d_pc' = "ready"
    /\ UNCHANGED <<dataset_command, oldVars, testVars, configureVars>>

DatasetNext == DownloadCall \/ DownloadEnds

InitDataset ==
    GenIdle /\ SweepIdle /\ RenderIdle /\ RemoteIdle /\ TestIdle
        /\ DatasetInit /\ ConfigureIdle

SpecDataset == InitDataset /\ [][DatasetNext]_vars

RanOk(e) == e.ran /\ e.rc = 0

\* C25: the marker exists exactly when some run of the dataset command ended
\* with code 0; after such a run no later call runs the command; after a run
\* that failed the next call runs the command again.
C25_MarkerIdempotence ==
    /\ marker <=> \E i \in 1..Len(d_log) : RanOk(d_log[i])
    /\ \A i, j \in 1..Len(d_log) : (i < j /\ RanOk(d_log[i])) => ~d_log[j].ran
    /\ \A j \in 2..Len(d_log) :
          (d_log[j - 1].ran /\ d_log[j - 1].rc # 0) => d_log[j].ran

C25_Witness ==
    /\ Len(d_log) >= 3
    /\ d_log[1].ran /\ d_log[1].rc # 0
    /\ RanOk(d_log[2])
    /\ ~d_log[3].ran
    /\ marker

(***************************************************************************)
(* The remotes menu of `configure`: config["remotes"] starts empty and the *)
(* user adds, updates and removes targets until Finish saves the file.     *)
(* cfg_last records the last menu action, the name it was given, whether   *)
(* the user declined the question about initial commands, and the mapping  *)
(* before the action.                                                      *)
(***************************************************************************)
MaxActions == 3

RemoteNames == {RegisteredName, UnregisteredName}

HostPool == {"h1", "h2"}

\* what the user answers about initial commands: no, or yes and a list
InitChoices ==
    {[declined |-> TRUE, init_commands |-> <<>>]}
        \cup {[declined |-> FALSE, init_commands |-> l] : l \in InitCommandLists}

\* the dict literal assigned to config["remotes"][name], then the optional
\* init_commands key
NewEntry(host, choice) ==
    [host          |-> host,
     has_init      |-> ~choice.declined,
     init_commands |-> choice.init_commands]

ConfigureAdd ==
    /\ cfg_pc = "menu"
    /\ cfg_n < MaxActions
    /\ \E name \in RemoteNames, host \in HostPool, choice \in InitChoices :
          /\ cfg_remotes' =
                 [n \in (DOMAIN cfg_remotes) \cup {name} |->
                     IF n = name THEN NewEntry(host, choice) ELSE cfg_remotes[n]]
          /\ cfg_last' = [action |-> "A", name |-> name,
                          declined |-> choice.declined, before |-> cfg_remotes]
    /\ cfg_n' = cfg_n + 1
    /\ UNCHANGED <<cfg_pc, oldVars, testVars, datasetVars>>

ConfigureUpdate ==
    /\ cfg_pc = "menu"
    /\ cfg_n < MaxActions
    /\ \E name \in RemoteNames, choice \in InitChoices :
          /\ IF name \in DOMAIN cfg_remotes
                THEN \E host \in HostPool :
                        cfg_remotes' =
                            [cfg_remotes EXCEPT ![name] = NewEntry(host, choice)]
                ELSE UNCHANGED cfg_remotes
          /\ cfg_last' = [action |-> "U", name |-> name,
                          declined |-> choice.declined, before |-> cfg_remotes]
    /\ cfg_n' = cfg_n + 1
    /\ UNCHANGED <<cfg_pc, oldVars, testVars, datasetVars>>

ConfigureRemove ==
    /\ cfg_pc = "menu"
    /\ cfg_n < MaxActions
    /\ \E name \in RemoteNames :
          /\ cfg_remotes' =
                 [n \in (DOMAIN cfg_remotes) \ {name} |-> cfg_remotes[n]]
          /\ cfg_last' = [action |-> "R", name |-> name,
                          declined |-> FALSE, before |-> cfg_remotes]
    /\ cfg_n' = cfg_n + 1
    /\ UNCHANGED <<cfg_pc, oldVars, testVars, datasetVars>>

ConfigureFinish ==
    /\ cfg_pc = "menu"
    /\ cfg_pc' = "saved"
    /\ UNCHANGED <<cfg_remotes, cfg_n, cfg_last, oldVars, testVars, datasetVars>>

ConfigureNext ==
    ConfigureAdd \/ ConfigureUpdate \/ ConfigureRemove \/ ConfigureFinish

InitConfigure ==
    /\ GenIdle /\ SweepIdle /\ RenderIdle /\ RemoteIdle /\ TestIdle /\ DatasetIdle
    /\ cfg_remotes = <<>>
    /\ cfg_pc = "menu"
    /\ cfg_n = 0
    /\ cfg_last = NoAction

SpecConfigure == InitConfigure /\ [][ConfigureNext]_vars

\* the initial commands a target runs: none when the key is absent
InitCommandsOf(r) == IF r.has_init THEN r.init_commands ELSE <<>>

\* C30: an Update of a registered target whose initial-commands question is
\* declined leaves that target's initial commands as they were, and every
\* action leaves every target other than the named one as it was.
C30_UpdateKeepsInitCommands ==
    cfg_last.action # "none" =>
        /\ ( /\ cfg_last.action = "U"
             /\ cfg_last.name \in DOMAIN cfg_last.before
             /\ cfg_last.declined )
              => /\ cfg_last.name \in DOMAIN cfg_remotes
                 /\ InitCommandsOf(cfg_remotes[cfg_last.name])
                        = InitCommandsOf(cfg_last.before[cfg_last.name])
        /\ \A n \in RemoteNames \ {cfg_last.name} :
              /\ (n \in DOMAIN cfg_remotes) <=> (n \in DOMAIN cfg_last.before)
              /\ n \in DOMAIN cfg_remotes => cfg_remotes[n] = cfg_last.before[n]

====
